---------------------------- MODULE Spec2Model ----------------------------
(***************************************************************************)
(* Finite algebraic structures (Structure, Field), their axiom predicates  *)
(* and the canonical forms (DNF / CNF) of formulas over them.              *)
(*                                                                         *)
(* An Element is modelled by its value (an integer): equality, ordering    *)
(* and hashing of Elements are defined on the value alone.  The result of  *)
(* a call is a record [tag, val, exc]: an Element ("elem"), the float nan  *)
(* sentinel ("nan"), a bool ("bool", val 1 or 0) or a raised exception     *)
(* ("raise").                                                              *)
(***************************************************************************)
EXTENDS Integers, Sequences, FiniteSets, TLC

VARIABLES
    struct,     \* the constructed Structure or Field
    pool,       \* values of the Elements obtained from struct so far
    ret,        \* the last call on struct: [op, args, tag, val, exc]
    view,       \* canonical forms: the formula bound to struct, and its arity
    trav        \* canonical forms: the traversals of the DNF and the CNF view

vars == <<struct, pool, ret, view, trav>>

----------------------------------------------------------------------------
(* Bounds of the model *)

MaxElem == 2        \* generic carriers are the non-empty subsets of 0..MaxElem
MaxN == 8           \* D(n) for n in 1..MaxN
MaxOrd == 8         \* Field(m) with the ordinary operations for m in 1..MaxOrd
MaxOddOrd == 2      \* Fields with other operations have order 1..MaxOddOrd
MaxPerm == 4        \* sets of up to MaxPerm elements iterate in any order
MaxVal == 3         \* Elements that left the carrier are followed up to this value
MaxExp == 6         \* exponents of pow are in -MaxExp..MaxExp
MaxArity == 3       \* formulas have 0..MaxArity parameters
MaxCanonN == 4      \* canonical forms are taken over B, D(1)..D(MaxCanonN), ...
MaxRaw == 2         \* bound formulas are called with raw values -1..MaxRaw
MaxTravRows == 4    \* interleaved traversals run over at most MaxTravRows operand tuples
MaxRounds == 2      \* a traversal is run at most MaxRounds times
MaxRows == 8        \* canonical forms are taken over at most MaxRows operand tuples

----------------------------------------------------------------------------
(* Results of calls *)

Elem(v) == [tag |-> "elem", val |-> v, exc |-> ""]
NaN == [tag |-> "nan", val |-> 0, exc |-> ""]
Bool(b) == [tag |-> "bool", val |-> IF b THEN 1 ELSE 0, exc |-> ""]
Raise(e) == [tag |-> "raise", val |-> 0, exc |-> e]

----------------------------------------------------------------------------
(* The operations passed to Structure and Field *)

Abs(a) == IF a < 0 THEN -a ELSE a

RECURSIVE gcd(_, _)
gcd(a, b) == IF b = 0 THEN Abs(a) ELSE gcd(b, a % Abs(b))

lcm(a, b) == IF a = 0 \/ b = 0 THEN 0 ELSE (Abs(a) * Abs(b)) \div gcd(a, b)

OR(a, b) == IF a # 0 THEN 1 ELSE IF b # 0 THEN 1 ELSE 0
AND(a, b) == IF a = 0 THEN 0 ELSE IF b # 0 THEN 1 ELSE 0
NOT(a) == IF a = 0 THEN 1 ELSE 0

BinOps == {"add", "mul", "left", "right"}
UnOps == {"ident", "succ"}

\* the binary operation named op on raw values
BinOp(op, a, b) ==
    CASE op = "OR" -> OR(a, b)
      [] op = "AND" -> AND(a, b)
      [] op = "lcm" -> lcm(a, b)
      [] op = "gcd" -> gcd(a, b)
      [] op = "add" -> a + b
      [] op = "mul" -> a * b
      [] op = "left" -> a
      [] op = "right" -> b

\* the unary operation named op on a raw value; n is D(n)'s n
UnOp(op, n, a) ==
    CASE op = "NOT" -> NOT(a)
      [] op = "floordiv" -> n \div a
      [] op = "ident" -> a
      [] op = "succ" -> a + 1

----------------------------------------------------------------------------
(* Sequences and iteration *)

Min(S) == CHOOSE x \in S : \A y \in S : x <= y

\* sorted(S): the values of S in ascending order
RECURSIVE sorted(_)
sorted(S) == IF S = {} THEN <<>> ELSE <<Min(S)>> \o sorted(S \ {Min(S)})

Range(q) == {q[i] : i \in 1..Len(q)}

\* the orders in which a set of Elements with the values S may iterate
Orders(S) ==
    IF Cardinality(S) <= MaxPerm
    THEN {q \in [1..Cardinality(S) -> S] : Range(q) = S}
    ELSE {sorted(S)}

RECURSIVE operands_first_fastest(_, _)
operands_first_fastest(s, n) ==
    IF n = 0 THEN << <<>> >>
    ELSE LET es == sorted(s.set)
             prev == operands_first_fastest(s, n - 1)
             m == Len(prev)
         IN  [i \in 1..(Len(es) * m) |->
                 <<es[((i - 1) % Len(es)) + 1]>> \o prev[((i - 1) \div Len(es)) + 1]]

\* product(sorted(elements), repeat=n): the last component varies fastest
RECURSIVE operands(_, _)
operands(s, n) ==
    IF n = 0 THEN << <<>> >>
    ELSE LET es == sorted(s.set)
             prev == operands(s, n - 1)
             m == Len(prev)
         IN  [i \in 1..(Len(es) * m) |->
                 <<es[((i - 1) \div m) + 1]>> \o prev[((i - 1) % m) + 1]]

----------------------------------------------------------------------------
(* Elements: the operators of the Element class of a Structure or Field *)

ElementInit_raw(s, v) == v

\* Element.__init__: a Field reduces the value modulo its order
ElementInit(s, v) == IF s.kind = "Field" THEN v % s.ord ELSE v

\* Element.__add__, Element.__mul__
ElementAdd(s, a, b) == ElementInit(s, BinOp(s.add, a, b))
ElementMul(s, a, b) == ElementInit(s, BinOp(s.mul, a, b))

----------------------------------------------------------------------------
(* Construction *)

find_additive_identity_right(s, o) ==
    LET I == {i \in 1..Len(o) : \A y \in s.set : ElementAdd(s, y, o[i]) = y}
    IN  IF I = {} THEN {} ELSE {o[Min(I)]}

\* the first x of the iteration with x + y == y for every y; {} for None
find_additive_identity(s, o) ==
    LET I == {i \in 1..Len(o) : \A y \in s.set : ElementAdd(s, o[i], y) = y}
    IN  IF I = {} THEN {} ELSE {o[Min(I)]}

find_multiplicative_identity(s, o) ==
    LET I == {i \in 1..Len(o) : \A y \in s.set : ElementMul(s, o[i], y) = y}
    IN  IF I = {} THEN {} ELSE {o[Min(I)]}

\* __post_init__: the attribute identity_add (identity_mul) is set only when
\* an identity was found; {} stands for the missing attribute
post_init(s, o) ==
    [s EXCEPT !.identity_add = find_additive_identity(s, o),
              !.identity_mul = find_multiplicative_identity(s, o)]

Structure(name, set, add, mul, inv, n) ==
    [kind |-> "Structure", name |-> name, set |-> set, add |-> add, mul |-> mul,
     inv |-> inv, n |-> n, ord |-> 0, identity_add |-> {}, identity_mul |-> {}]

Field(name, ord, add, mul) ==
    [kind |-> "Field", name |-> name, set |-> 0..(ord - 1), add |-> add, mul |-> mul,
     inv |-> "add_inv", n |-> 0, ord |-> ord, identity_add |-> {}, identity_mul |-> {}]

B == Structure("B", {0, 1}, "OR", "AND", "NOT", 0)

isqrt(n) == CHOOSE r \in 0..n : r * r <= n /\ (r + 1) * (r + 1) > n

D_roots(n) ==
    Structure("D", {j \in 1..isqrt(n) : n % j = 0}, "lcm", "gcd", "floordiv", n)

\* D(n): each divisor k up to the square root brings its cofactor n // k
D(n) ==
    LET divisors == UNION {{k, n \div k} : k \in {j \in 1..isqrt(n) : n % j = 0}}
    IN  Structure("D", divisors, "lcm", "gcd", "floordiv", n)

\* GF2 .. GF19, and Field(name, m, operator.add, operator.mul) in general
GFOrders == {2, 3, 5, 7, 11, 13, 17, 19}
GF(m) == Field("GF", m, "add", "mul")

\* the structures and fields the model constructs
Generic ==
    {Structure("S", c, a, m, i, 0) :
        c \in (SUBSET (0..MaxElem)) \ {{}}, a \in BinOps, m \in BinOps, i \in UnOps}
Divs == {D(n) : n \in 1..MaxN}
Fields ==
    {GF(m) : m \in GFOrders \cup (1..MaxOrd)}
    \cup {Field("F", m, a, b) : m \in 1..MaxOddOrd, a \in BinOps, b \in BinOps}
Universe == Generic \cup {B} \cup Divs \cup Fields

----------------------------------------------------------------------------
(* Lookups *)

None == [tag |-> "none", val |-> 0, exc |-> ""]
TheOne(S) == CHOOSE x \in S : TRUE

\* getattr(self, 'identity_add', float('nan'))
getattr_identity(S) == IF S = {} THEN NaN ELSE Elem(TheOne(S))

getitem_swapped(s, identity) ==
    IF identity = 0 THEN getattr_identity(s.identity_mul)
    ELSE IF identity = 1 THEN getattr_identity(s.identity_add)
    ELSE Raise("ValueError")

\* __getitem__: struct[0], struct[1]
getitem(s, identity) ==
    IF identity = 0 THEN getattr_identity(s.identity_add)
    ELSE IF identity = 1 THEN getattr_identity(s.identity_mul)
    ELSE Raise("ValueError")

\* __call__: a Structure looks the value up, a Field reduces it first
call(s, value) ==
    IF s.kind = "Field" THEN Elem(value % s.ord)
    ELSE IF value \in s.set THEN Elem(value)
    ELSE Raise("ValueError")

----------------------------------------------------------------------------
(* Field: inverses and powers.  x, base are values of Elements of the field *)

\* Element.__eq__(other) reads other.value: a float has none
EqRaises(other) == other.tag # "elem"

add_inv(s, o, x) ==
    IF EqRaises(getitem(s, 0)) THEN Raise("AttributeError")
    ELSE LET z == getitem(s, 0).val
             I == {i \in 1..Len(o) : ElementAdd(s, x, o[i]) = z}
         IN  IF x = z THEN Elem(x)
             ELSE IF I = {} THEN Elem(z) ELSE Elem(o[Min(I)])

mul_inv_adds(s, o, x) ==
    IF EqRaises(getitem(s, 0)) THEN Raise("AttributeError")
    ELSE IF x = getitem(s, 0).val THEN NaN
    ELSE IF EqRaises(getitem(s, 1)) THEN Raise("AttributeError")
    ELSE LET u == getitem(s, 1).val
             I == {i \in 1..Len(o) : ElementAdd(s, x, o[i]) = u}
         IN  IF x = u THEN Elem(x)
             ELSE IF I = {} THEN Elem(u) ELSE Elem(o[Min(I)])

mul_inv(s, o, x) ==
    IF EqRaises(getitem(s, 0)) THEN Raise("AttributeError")
    ELSE IF x = getitem(s, 0).val THEN NaN
    ELSE IF EqRaises(getitem(s, 1)) THEN Raise("AttributeError")
    ELSE LET u == getitem(s, 1).val
             I == {i \in 1..Len(o) : ElementMul(s, x, o[i]) = u}
         IN  IF x = u THEN Elem(x)
             ELSE IF I = {} THEN Elem(u) ELSE Elem(o[Min(I)])

RECURSIVE pow_loop_square_first(_, _, _, _)
pow_loop_square_first(s, res, base, exp) ==
    IF exp = 0 THEN res
    ELSE LET b2 == ElementMul(s, base, base)
         IN  pow_loop_square_first(s, IF exp % 2 = 1 THEN ElementMul(s, res, b2) ELSE res,
                                   b2, exp \div 2)

\* the while loop of pow: square and multiply from the lowest bit
RECURSIVE pow_loop(_, _, _, _)
pow_loop(s, res, base, exp) ==
    IF exp = 0 THEN res
    ELSE pow_loop(s, IF exp % 2 = 1 THEN ElementMul(s, res, base) ELSE res,
                  ElementMul(s, base, base), exp \div 2)

\* pow for exp >= 0, on a field that has both identities or is of order 1
pow_nonneg(s, base, exp) ==
    IF s.ord \in {0, 1} THEN getitem(s, 0)
    ELSE IF exp = 0 THEN getitem(s, 1)
    ELSE IF base \in {getitem(s, 0).val, getitem(s, 1).val} THEN Elem(base)
    ELSE Elem(pow_loop(s, getitem(s, 1).val, base, exp))

pow(s, o, base, exp) ==
    IF exp < 0
    THEN LET r == pow_nonneg(s, base, -exp)
         IN  IF r.tag = "elem" THEN mul_inv(s, o, r.val) ELSE Raise("AttributeError")
    ELSE pow_nonneg(s, base, exp)

\* Element.__neg__
neg(s, o, x) ==
    IF s.kind = "Field" THEN add_inv(s, o, x) ELSE Elem(UnOp(s.inv, s.n, x))

----------------------------------------------------------------------------
(* bind: a formula over Elements called with raw values *)

\* the formulas bound in the model, named by their bodies; the last one is
\* the formula of the module's doctest
Formulas == {"x + y", "-x", "(x + -y) * (-x + -y)"}
Arity(f) == IF f = "-x" THEN 1 ELSE 2

\* formula(x, y) on Elements of a Structure: xs are the values of the arguments
apply(s, f, xs) ==
    CASE f = "x + y" -> Elem(ElementAdd(s, xs[1], xs[2]))
      [] f = "-x" -> neg(s, <<>>, xs[1])
      [] f = "(x + -y) * (-x + -y)" ->
            LET nx == neg(s, <<>>, xs[1]).val
                ny == neg(s, <<>>, xs[2]).val
            IN  Elem(ElementMul(s, ElementAdd(s, xs[1], ny), ElementAdd(s, nx, ny)))

bind_nan(s, f, args) ==
    IF \E i \in 1..Len(args) : call(s, args[i]).tag = "raise" THEN NaN
    ELSE apply(s, f, args)

\* bind(formula)(raw arguments): every argument goes through __call__ before
\* the formula runs, and the first one that fails raises
bind(s, f, args) ==
    LET wrapped == [i \in 1..Len(args) |-> call(s, args[i])]
        failed == {i \in 1..Len(args) : wrapped[i].tag = "raise"}
    IN  IF failed # {} THEN wrapped[Min(failed)]
        ELSE apply(s, f, [i \in 1..Len(args) |-> wrapped[i].val])

----------------------------------------------------------------------------
(* Axiom predicates *)

\* all(...) over outcomes "T", "F", "E" (raised) in the order of evaluation
all(q) ==
    LET I == {i \in 1..Len(q) : q[i] # "T"}
    IN  IF I = {} THEN Bool(TRUE)
        ELSE IF q[Min(I)] = "F" THEN Bool(FALSE) ELSE Raise("AttributeError")

Truth(b) == IF b THEN "T" ELSE "F"

is_commutative(s) ==
    LET ops == operands(s, 2)
    IN  all([i \in 1..Len(ops) |->
            LET x == ops[i][1]
                y == ops[i][2]
            IN  Truth(ElementAdd(s, x, y) = ElementAdd(s, y, x)
                      /\ ElementMul(s, x, y) = ElementMul(s, y, x))])

is_distributive(s) ==
    LET ops == operands(s, 3)
    IN  all([i \in 1..Len(ops) |->
            LET x == ops[i][1]
                y == ops[i][2]
                z == ops[i][3]
            IN  Truth(ElementMul(s, x, ElementAdd(s, y, z))
                        = ElementAdd(s, ElementMul(s, x, y), ElementMul(s, x, z))
                      /\ ElementAdd(s, x, ElementMul(s, y, z))
                        = ElementMul(s, ElementAdd(s, x, y), ElementAdd(s, x, z)))])

\* struct[0] is not None and struct[1] is not None
has_identities(s) == Bool(getitem(s, 0) # None /\ getitem(s, 1) # None)

\* x + -x == struct[1] and x * -x == struct[0], for one x
complement_law(s, o, x) ==
    LET nx == neg(s, o, x)
    IN  IF nx.tag = "raise" THEN "E"
        ELSE IF EqRaises(getitem(s, 1)) THEN "E"
        ELSE IF ElementAdd(s, x, nx.val) # getitem(s, 1).val THEN "F"
        ELSE IF EqRaises(getitem(s, 0)) THEN "E"
        ELSE Truth(ElementMul(s, x, nx.val) = getitem(s, 0).val)

\* iterates struct.elements, a set
is_complementary(s, o) == all([i \in 1..Len(o) |-> complement_law(s, o, o[i])])

is_boolean_algebraic_uncomplemented(s, o) ==
    IF is_commutative(s) # Bool(TRUE) THEN Bool(FALSE)
    ELSE IF is_distributive(s) # Bool(TRUE) THEN Bool(FALSE)
    ELSE has_identities(s)

\* the four predicates joined by "and", left to right
is_boolean_algebraic(s, o) ==
    IF is_commutative(s) # Bool(TRUE) THEN Bool(FALSE)
    ELSE IF is_distributive(s) # Bool(TRUE) THEN Bool(FALSE)
    ELSE IF has_identities(s) # Bool(TRUE) THEN Bool(FALSE)
    ELSE is_complementary(s, o)

\* the filter a != struct[0] is evaluated first, for every pair
no_zero_dividers(s) ==
    LET ops == operands(s, 2)
    IN  all([i \in 1..Len(ops) |->
            LET a == ops[i][1]
                b == ops[i][2]
            IN  IF EqRaises(getitem(s, 0)) THEN "E"
                ELSE IF a = getitem(s, 0).val \/ b = getitem(s, 0).val THEN "T"
                ELSE Truth(ElementMul(s, a, b) # getitem(s, 0).val)])

----------------------------------------------------------------------------
(* The algebra session: one Structure or Field, and the calls made on it.   *)
(* A set of Elements iterates in an order the language leaves open: every   *)
(* iteration takes one of Orders(struct.set).                               *)

Ret(op, args, r) == [op |-> op, args |-> args, tag |-> r.tag, val |-> r.val, exc |-> r.exc]

NoView == [n |-> 0, formula |-> <<>>]
NoTrav == [v \in {"DNF", "CNF"} |-> [pos |-> 0, out |-> <<>>]]

\* an Element result joins the Elements obtained so far
Obtain(r) ==
    /\ r.tag = "elem" =>
          (r.val \in struct.set \/ (r.val >= -MaxVal /\ r.val <= MaxVal))
    /\ pool' = IF r.tag = "elem" THEN pool \cup {r.val} ELSE pool

Done(op, args, r) ==
    /\ ret' = Ret(op, args, r)
    /\ Obtain(r)
    /\ UNCHANGED <<struct, view, trav>>

Init ==
    /\ \E s \in Universe : \E o \in Orders(s.set) :
          /\ struct = post_init(s, o)
          /\ pool = s.set
    /\ ret = Ret("init", <<>>, None)
    /\ view = NoView
    /\ trav = NoTrav

Call == \E v \in (-1)..MaxVal : Done("call", <<v>>, call(struct, v))

GetItem == \E i \in (-1)..2 : Done("getitem", <<i>>, getitem(struct, i))

Add == \E x \in pool, y \in pool : Done("add", <<x, y>>, Elem(ElementAdd(struct, x, y)))

Mul == \E x \in pool, y \in pool : Done("mul", <<x, y>>, Elem(ElementMul(struct, x, y)))

Neg ==
    \E x \in pool :
        \E o \in (IF struct.kind = "Field" THEN Orders(struct.set) ELSE {<<>>}) :
            Done("neg", <<x>>, neg(struct, o, x))

AddInv ==
    /\ struct.kind = "Field"
    /\ \E x \in pool, o \in Orders(struct.set) :
          Done("add_inv", <<x>>, add_inv(struct, o, x))

MulInv ==
    /\ struct.kind = "Field"
    /\ \E x \in pool, o \in Orders(struct.set) :
          Done("mul_inv", <<x>>, mul_inv(struct, o, x))

Pow ==
    /\ struct.kind = "Field"
    /\ struct.ord = 1 \/ (struct.identity_add # {} /\ struct.identity_mul # {})
    /\ \E x \in pool, e \in (-MaxExp)..MaxExp, o \in Orders(struct.set) :
          Done("pow", <<x, e>>, pow(struct, o, x, e))

Next ==
    \/ Call
    \/ GetItem
    \/ Add
    \/ Mul
    \/ Neg
    \/ AddInv
    \/ MulInv
    \/ Pow

Spec == Init /\ [][Next]_vars

----------------------------------------------------------------------------
(* Lookups on the constructed Structure or Field: wrapping raw values,      *)
(* reading the identities by selector, and calling bound formulas           *)

Bind ==
    /\ struct.kind = "Structure"
    /\ \E f \in Formulas : \E args \in [1..Arity(f) -> (-1)..MaxRaw] :
          Done("bind " \o f, args, bind(struct, f, args))

NextLookup ==
    \/ Call
    \/ GetItem
    \/ Bind

SpecLookup == Init /\ [][NextLookup]_vars

----------------------------------------------------------------------------
(* The axiom predicates applied to the constructed Structure or Field *)

IsCommutative == Done("is_commutative", <<>>, is_commutative(struct))

IsDistributive == Done("is_distributive", <<>>, is_distributive(struct))

HasIdentities == Done("has_identities", <<>>, has_identities(struct))

IsComplementary ==
    \E o \in Orders(struct.set) :
        Done("is_complementary", <<>>, is_complementary(struct, o))

IsBooleanAlgebraic ==
    \E o \in Orders(struct.set) :
        Done("is_boolean_algebraic", <<>>, is_boolean_algebraic(struct, o))

NoZeroDividers == Done("no_zero_dividers", <<>>, no_zero_dividers(struct))

NextAxioms ==
    \/ IsCommutative
    \/ IsDistributive
    \/ HasIdentities
    \/ IsComplementary
    \/ IsBooleanAlgebraic
    \/ NoZeroDividers

SpecAxioms == Init /\ [][NextAxioms]_vars

----------------------------------------------------------------------------
(* Properties of the algebra session *)

\* the elements e of the carrier with e + x == x (e * x == x) for every x
AddIdentities == {e \in struct.set : \A x \in struct.set : ElementAdd(struct, e, x) = x}
MulIdentities == {e \in struct.set : \A x \in struct.set : ElementMul(struct, e, x) = x}

AddCommutes == \A x \in struct.set, y \in struct.set :
    ElementAdd(struct, x, y) = ElementAdd(struct, y, x)
MulCommutes == \A x \in struct.set, y \in struct.set :
    ElementMul(struct, x, y) = ElementMul(struct, y, x)

\* C5 as stated: identity_add is present exactly when some element satisfies
\* e + x == x for every x, it satisfies that law, and it is the only element
\* that does; the same for identity_mul.
C5_IdentityUnique ==
    /\ struct.identity_add = AddIdentities
    /\ struct.identity_mul = MulIdentities

\* C5 amended: identity_add is present exactly when some element satisfies
\* e + x == x for every x, and it is one of the elements that do; it is the only
\* one when the addition commutes on the carrier.  The same for identity_mul.
C5_IdentityDiscovery ==
    /\ (struct.identity_add # {}) <=> (AddIdentities # {})
    /\ struct.identity_add \subseteq AddIdentities
    /\ Cardinality(struct.identity_add) <= 1
    /\ AddCommutes => struct.identity_add = AddIdentities
    /\ (struct.identity_mul # {}) <=> (MulIdentities # {})
    /\ struct.identity_mul \subseteq MulIdentities
    /\ Cardinality(struct.identity_mul) <= 1
    /\ MulCommutes => struct.identity_mul = MulIdentities

\* a Structure with an additive identity found, and no multiplicative one
C5_Witness ==
    /\ struct.kind = "Structure"
    /\ struct.add = "add" /\ struct.identity_add = {0}
    /\ struct.mul = "left" /\ Cardinality(struct.set) = 3 /\ struct.identity_mul = {}

\* C6 as stated: x + y, x * y and -x of a Structure either fail with the
\* invalid-value error or give an Element of the carrier set, so every Element
\* obtained from a Structure has its value in the carrier set.
C6_ClosureEnforced ==
    struct.kind = "Structure" =>
        /\ pool \subseteq struct.set
        /\ ret.op \in {"add", "mul", "neg"} =>
              \/ ret.tag = "elem" /\ ret.val \in struct.set
              \/ ret.tag = "raise" /\ ret.exc = "ValueError"

\* C9: on a Field of order m >= 2 with the ordinary operations, pow(b, e) for
\* e >= 0 is the element b^e mod m; on a Field of order 1 it is the additive
\* identity.
RECURSIVE ModExp(_, _, _)
ModExp(b, e, m) == IF e = 0 THEN 1 % m ELSE (b * ModExp(b, e - 1, m)) % m

C9_PowIsModExp ==
    (/\ struct.kind = "Field" /\ struct.add = "add" /\ struct.mul = "mul"
     /\ ret.op = "pow" /\ ret.args[2] >= 0) =>
        IF struct.ord >= 2
        THEN /\ ret.tag = "elem"
             /\ ret.val = ModExp(ret.args[1], ret.args[2], struct.ord)
             /\ (ret.args[1] \in {0, 1} /\ ret.args[2] > 0) => ret.val = ret.args[1]
        ELSE ret.tag = "elem" /\ {ret.val} = struct.identity_add

\* 3^5 = 243 = 5 (mod 7), through the loop of pow
C9_Witness ==
    /\ struct.kind = "Field" /\ struct.ord = 7 /\ struct.add = "add" /\ struct.mul = "mul"
    /\ ret.op = "pow" /\ ret.args = <<3, 5>> /\ ret.tag = "elem" /\ ret.val = 5

\* C10: in GF(p), x + add_inv(x) is the additive identity, and add_inv of the
\* identity is the identity; for x other than the additive identity
\* x * mul_inv(x) is the multiplicative identity and pow(x, -1) is mul_inv(x);
\* mul_inv of the additive identity is the nan sentinel, not an exception.
IsGF == struct.kind = "Field" /\ struct.ord \in GFOrders
           /\ struct.add = "add" /\ struct.mul = "mul"

C10_Inverses ==
    IsGF =>
        /\ struct.identity_add = {0} /\ struct.identity_mul = {1}
        /\ ret.op = "add_inv" =>
              /\ ret.tag = "elem"
              /\ ElementAdd(struct, ret.args[1], ret.val) = 0
              /\ ret.args[1] = 0 => ret.val = 0
        /\ (ret.op = "mul_inv" /\ ret.args[1] # 0) =>
              /\ ret.tag = "elem"
              /\ ElementMul(struct, ret.args[1], ret.val) = 1
        /\ (ret.op = "mul_inv" /\ ret.args[1] = 0) => ret.tag = "nan"
        /\ (ret.op = "pow" /\ ret.args[2] = -1 /\ ret.args[1] # 0) =>
              /\ ret.tag = "elem"
              /\ ElementMul(struct, ret.args[1], ret.val) = 1
              /\ \A o \in Orders(struct.set) :
                    mul_inv(struct, o, ret.args[1]) = Elem(ret.val)

\* GF7: mul_inv(3) = 5
C10_Witness ==
    /\ IsGF /\ struct.ord = 7
    /\ ret.op = "mul_inv" /\ ret.args = <<3>> /\ ret.tag = "elem" /\ ret.val = 5

\* C11: on a Field of order m >= 1, wrapping any integer v, negative or >= m
\* included, succeeds and gives the Element with value v mod m; every Element
\* obtained by wrapping, + and * has its value in 0..m-1.
FloorMod(v, m) ==
    CHOOSE r \in 0..(m - 1) : \E k \in (-(Abs(v) + 1))..(Abs(v) + 1) : v = k * m + r

C11_FieldRange ==
    (struct.kind = "Field" /\ struct.ord >= 1) =>
        /\ pool \subseteq 0..(struct.ord - 1)
        /\ ret.op = "call" =>
              /\ ret.tag = "elem"
              /\ ret.val = FloorMod(ret.args[1], struct.ord)
        /\ ret.op \in {"add", "mul"} =>
              /\ ret.tag = "elem"
              /\ ret.val \in 0..(struct.ord - 1)

\* the field of order 3 wraps -1 to 2, and 2 + 2 there is 1
C11_Witness ==
    /\ struct.kind = "Field" /\ struct.ord = 3
    /\ \/ ret.op = "call" /\ ret.args = <<-1>> /\ ret.tag = "elem" /\ ret.val = 2
       \/ ret.op = "add" /\ ret.args = <<2, 2>> /\ ret.tag = "elem" /\ ret.val = 1

\* C12: s(v) on a Structure gives the Element with value v when v is in the
\* carrier set and raises the invalid-value error when it is not; a bound
\* formula called with raw arguments gives what the formula gives on the
\* wrapped Elements, and raises that error when an argument is outside the
\* carrier set; a failing call leaves the structure and its Elements as they were.
FormulaOn(f, a) ==
    LET plus(x, y) == BinOp(struct.add, x, y)
        times(x, y) == BinOp(struct.mul, x, y)
        minus(x) == UnOp(struct.inv, struct.n, x)
    IN  CASE f = "x + y" -> plus(a[1], a[2])
          [] f = "-x" -> minus(a[1])
          [] f = "(x + -y) * (-x + -y)" ->
                times(plus(a[1], minus(a[2])), plus(minus(a[1]), minus(a[2])))

C12_Wrapped ==
    struct.kind = "Structure" =>
        /\ ret.op = "call" =>
              IF ret.args[1] \in struct.set
              THEN ret.tag = "elem" /\ ret.val = ret.args[1]
              ELSE ret.tag = "raise" /\ ret.exc = "ValueError"
        /\ \A f \in Formulas : ret.op = "bind " \o f =>
              IF \A i \in 1..Len(ret.args) : ret.args[i] \in struct.set
              THEN ret.tag = "elem" /\ ret.val = FormulaOn(f, ret.args)
              ELSE ret.tag = "raise" /\ ret.exc = "ValueError"

C12_FailsFast ==
    /\ []C12_Wrapped
    /\ [][ret'.tag = "raise" => (struct' = struct /\ pool' = pool)]_vars

\* the doctest: B.bind(lambda x, y: (x + -y) * (-x + -y))(1, 1) is B(0); and a
\* bound formula of B called with 1 and 2 fails
C12_Witness ==
    /\ struct.name = "B"
    /\ \/ /\ ret.op = "bind (x + -y) * (-x + -y)" /\ ret.args = <<1, 1>>
          /\ ret.tag = "elem" /\ ret.val = 0
       \/ /\ ret.op = "bind x + y" /\ ret.args = <<1, 2>>
          /\ ret.tag = "raise" /\ ret.exc = "ValueError"

\* C13: on every Structure and Field, selector 0 gives identity_add when it
\* exists and the nan sentinel when it does not, selector 1 does the same for
\* identity_mul, and any other selector raises the invalid-argument error and
\* changes nothing.
C13_Selected ==
    ret.op = "getitem" =>
        CASE ret.args[1] = 0 ->
                IF struct.identity_add = {} THEN ret.tag = "nan"
                ELSE ret.tag = "elem" /\ {ret.val} = struct.identity_add
          [] ret.args[1] = 1 ->
                IF struct.identity_mul = {} THEN ret.tag = "nan"
                ELSE ret.tag = "elem" /\ {ret.val} = struct.identity_mul
          [] OTHER -> ret.tag = "raise" /\ ret.exc = "ValueError"

C13_IdentityLookup ==
    /\ []C13_Selected
    /\ [][(ret'.op = "getitem" /\ ret'.args[1] \notin {0, 1}) =>
              (struct' = struct /\ pool' = pool /\ view' = view /\ trav' = trav)]_vars

\* a structure with an additive identity other than its multiplicative one, read
\* by selector 0; a structure without a multiplicative identity, read by selector 1
C13_Witness ==
    /\ ret.op = "getitem"
    /\ \/ /\ ret.args = <<0>> /\ ret.tag = "elem" /\ struct.identity_mul # {}
          /\ {ret.val} # struct.identity_mul
       \/ ret.args = <<1>> /\ ret.tag = "nan" /\ struct.identity_add # {}

----------------------------------------------------------------------------
(* Properties of the axiom predicates *)

Predicates == {"is_commutative", "is_distributive", "has_identities",
               "is_complementary", "is_boolean_algebraic", "no_zero_dividers"}

\* add, mul and inv applied to carrier values give carrier values
Closed ==
    /\ \A x \in struct.set, y \in struct.set :
          /\ ElementAdd(struct, x, y) \in struct.set
          /\ ElementMul(struct, x, y) \in struct.set
    /\ struct.kind = "Structure" =>
          \A x \in struct.set : UnOp(struct.inv, struct.n, x) \in struct.set

\* C7 as stated: has_identities is True exactly when both identities exist.
C7_HasIdentities ==
    ret.op = "has_identities" =>
        ret = Ret("has_identities", <<>>,
                  Bool(struct.identity_add # {} /\ struct.identity_mul # {}))

\* C8 as stated: on a Structure or Field with closed operations every axiom
\* predicate returns a boolean and never raises, identities missing or not.
C8_PredicatesTotal ==
    (Closed /\ ret.op \in Predicates) => ret.tag = "bool"

\* C14: is_boolean_algebraic is the conjunction of commutativity,
\* distributivity, the identities and complementarity, each over the whole
\* operand space: on a Structure that has both identities it returns a truth
\* value, and whenever it returns one that value is the conjunction of the four
\* laws.  B passes; D(6) passes; D(8) is commutative and distributive, not
\* complementary, and fails; D(n) is commutative and distributive for every n,
\* and complementary exactly when n is square-free.
Distributes ==
    LET plus(x, y) == BinOp(struct.add, x, y)
        times(x, y) == BinOp(struct.mul, x, y)
    IN  \A x \in struct.set, y \in struct.set, z \in struct.set :
            /\ times(x, plus(y, z)) = plus(times(x, y), times(x, z))
            /\ plus(x, times(y, z)) = times(plus(x, y), plus(x, z))

Complemented ==
    /\ struct.identity_add # {} /\ struct.identity_mul # {}
    /\ \A x \in struct.set :
          /\ {BinOp(struct.add, x, UnOp(struct.inv, struct.n, x))} = struct.identity_mul
          /\ {BinOp(struct.mul, x, UnOp(struct.inv, struct.n, x))} = struct.identity_add

SquareFree(n) == \A k \in 2..n : n % (k * k) # 0

C14_BooleanAlgebra ==
    struct.kind = "Structure" =>
        /\ ret.op = "is_boolean_algebraic" =>
              /\ (struct.identity_add # {} /\ struct.identity_mul # {}) => ret.tag = "bool"
              /\ ret.tag = "bool" =>
                    (ret.val = 1 <=>
                        (AddCommutes /\ MulCommutes /\ Distributes /\ Complemented))
        /\ (struct.name = "B" /\ ret.op = "is_boolean_algebraic") => ret = Ret(ret.op, <<>>, Bool(TRUE))
        /\ struct.name = "D" =>
              /\ ret.op \in {"is_commutative", "is_distributive"} =>
                    ret.tag = "bool" /\ ret.val = 1
              /\ ret.op \in {"is_complementary", "is_boolean_algebraic"} =>
                    ret.tag = "bool" /\ (ret.val = 1 <=> SquareFree(struct.n))
              /\ (struct.n = 6 /\ ret.op = "is_boolean_algebraic") => ret.val = 1
              /\ (struct.n = 8 /\ ret.op \in {"is_complementary", "is_boolean_algebraic"}) =>
                    ret.val = 0

\* D(8), which is distributive, is found not to be a Boolean algebra
C14_Witness ==
    /\ struct.name = "D" /\ struct.n = 8 /\ Distributes
    /\ ret.op = "is_boolean_algebraic" /\ ret.tag = "bool" /\ ret.val = 0

\* C15: the carrier of D(n) is exactly the set of positive divisors of n; it
\* is closed under lcm (its addition), gcd (its multiplication) and x -> n div x
\* (its complement); identity_add is 1 and identity_mul is n.
C15_DivisorLattice ==
    struct.name = "D" =>
        /\ struct.n >= 1
        /\ struct.set = {d \in 1..struct.n : struct.n % d = 0}
        /\ struct.add = "lcm" /\ struct.mul = "gcd" /\ struct.inv = "floordiv"
        /\ \A x \in struct.set, y \in struct.set :
              /\ ElementAdd(struct, x, y) \in struct.set
              /\ ElementMul(struct, x, y) \in struct.set
              /\ ElementAdd(struct, x, y) % x = 0 /\ ElementAdd(struct, x, y) % y = 0
              /\ x % ElementMul(struct, x, y) = 0 /\ y % ElementMul(struct, x, y) = 0
        /\ \A x \in struct.set :
              /\ neg(struct, <<>>, x).tag = "elem"
              /\ neg(struct, <<>>, x).val \in struct.set
              /\ neg(struct, <<>>, x).val * x = struct.n
        /\ struct.identity_add = {1}
        /\ struct.identity_mul = {struct.n}

\* D(6) constructed: carrier {1, 2, 3, 6}, identities 1 and 6
C15_Witness ==
    /\ struct.name = "D" /\ struct.n = 6 /\ struct.set = {1, 2, 3, 6}
    /\ struct.identity_add = {1} /\ struct.identity_mul = {6}
    /\ ElementAdd(struct, 2, 3) = 6 /\ ElementMul(struct, 2, 3) = 1

----------------------------------------------------------------------------
(* Canonical forms: DNF(struct, formula) and CNF(struct, formula).          *)
(* A formula is its truth table: formula[t] is the truthiness of            *)
(* formula applied to t for the operand tuple t.  A traversal is a run of __iter__:  *)
(* pos operand tuples examined, out the terms yielded so far.               *)

RECURSIVE Power(_, _)
Power(b, n) == IF n = 0 THEN 1 ELSE b * Power(b, n - 1)

\* Element.__bool__
truthy(v) == v # 0

dnf_yields_falsy(v, t) == ~v.formula[t]
cnf_yields_truthy(v, t) == v.formula[t]

\* if self.formula(operands...)
dnf_yields(v, t) == v.formula[t]

\* if not self.formula(operands...)
cnf_yields(v, t) == ~v.formula[t]

maxterm_plain(s, t) == t

\* tuple(-op for op in operands)
maxterm(s, t) == [i \in 1..Len(t) |-> neg(s, <<>>, t[i]).val]

\* one turn of the loop of DNF.__iter__
DNF_iter(s, v, tr) ==
    LET t == operands(s, v.n)[tr.pos + 1]
    IN  [pos |-> tr.pos + 1,
         out |-> IF dnf_yields(v, t) THEN Append(tr.out, t) ELSE tr.out]

\* one turn of the loop of CNF.__iter__
CNF_iter(s, v, tr) ==
    LET t == operands(s, v.n)[tr.pos + 1]
    IN  [pos |-> tr.pos + 1,
         out |-> IF cnf_yields(v, t) THEN Append(tr.out, maxterm(s, t)) ELSE tr.out]

CanonStructs ==
    {B} \cup {D(n) : n \in 1..MaxCanonN}
    \cup {Structure("S", c, "add", "mul", "succ", 0) : c \in (SUBSET (0..MaxElem)) \ {{}}}

NumRows == Power(Cardinality(struct.set), view.n)

\* a structure is constructed and a formula over at most rows operand tuples
\* is put in canonical form
InitView(rows) ==
    /\ \E s \in CanonStructs : \E o \in Orders(s.set) :
          /\ struct = post_init(s, o)
          /\ pool = s.set
    /\ ret = Ret("init", <<>>, None)
    /\ \E n \in 0..MaxArity :
          /\ Power(Cardinality(struct.set), n) <= rows
          /\ \E f \in [Range(operands(struct, n)) -> BOOLEAN] :
                view = [n |-> n, formula |-> f]

InitCanon ==
    /\ InitView(MaxRows)
    /\ trav = NoTrav

DNFStep ==
    /\ trav.DNF.pos < NumRows
    /\ trav' = [trav EXCEPT !.DNF = DNF_iter(struct, view, @)]
    /\ UNCHANGED <<struct, pool, ret, view>>

CNFStep ==
    /\ trav.CNF.pos < NumRows
    /\ trav' = [trav EXCEPT !.CNF = CNF_iter(struct, view, @)]
    /\ UNCHANGED <<struct, pool, ret, view>>

NextCanon ==
    \/ DNFStep
    \/ CNFStep

SpecCanon == InitCanon /\ [][NextCanon]_vars

----------------------------------------------------------------------------
(* Canonical forms as values: list(form), form.ascii() and form()           *)

\* the terms a complete run of __iter__ yields: the loop over struct.operands(n)
DNF_list(s, v) ==
    LET ops == operands(s, v.n)
        I == {i \in 1..Len(ops) : dnf_yields(v, ops[i])}
        at(k) == CHOOSE i \in I : Cardinality({j \in I : j <= i}) = k
    IN  [k \in 1..Cardinality(I) |-> ops[at(k)]]

CNF_list(s, v) ==
    LET ops == operands(s, v.n)
        I == {i \in 1..Len(ops) : cnf_yields(v, ops[i])}
        at(k) == CHOOSE i \in I : Cardinality({j \in I : j <= i}) = k
    IN  [k \in 1..Cardinality(I) |-> maxterm(s, ops[at(k)])]

\* signature(self.formula).parameters: the formula's parameter names, in
\* declaration order
Names == <<"x", "y", "z", "u", "v", "w">>
params(v) == SubSeq(Names, 1, v.n)

\* sep.join(q)
RECURSIVE join(_, _)
join(sep, q) ==
    IF q = <<>> THEN ""
    ELSE IF Len(q) = 1 THEN q[1]
    ELSE q[1] \o sep \o join(sep, Tail(q))

literal_negates_truthy(x, op) == (IF truthy(op) THEN "-" ELSE "") \o x

\* '%s%s' % ('' if op else '-', x)
literal(x, op) == (IF truthy(op) THEN "" ELSE "-") \o x

\* zip(params, operands) of one term
literals(v, term) == [j \in 1..Min({v.n, Len(term)}) |-> literal(params(v)[j], term[j])]

DNF_ascii(s, v) ==
    LET terms == DNF_list(s, v)
    IN  join(" + ", [i \in 1..Len(terms) |-> join("*", literals(v, terms[i]))])

CNF_ascii(s, v) ==
    LET terms == CNF_list(s, v)
    IN  join(" * ", [i \in 1..Len(terms) |-> "(" \o join("+", literals(v, terms[i])) \o ")"])

\* math.prod(q, start=start) and sum(q, start=start) on Elements, by their values
RECURSIVE prod(_, _, _)
prod(s, start, q) ==
    IF q = <<>> THEN start ELSE prod(s, ElementMul(s, start, q[1]), Tail(q))

sum_multiplies(s, start, q) == prod(s, start, q)

RECURSIVE sum(_, _, _)
sum(s, start, q) ==
    IF q = <<>> THEN start ELSE sum(s, ElementAdd(s, start, q[1]), Tail(q))

\* DNF.__call__: start=self.struct.identity_add is read when sum is called,
\* self.struct.identity_mul when the first minterm is folded
DNF_call(s, v) ==
    LET terms == DNF_list(s, v)
    IN  IF s.identity_add = {} THEN Raise("AttributeError")
        ELSE IF terms # <<>> /\ s.identity_mul = {} THEN Raise("AttributeError")
        ELSE Elem(sum(s, TheOne(s.identity_add),
                      [i \in 1..Len(terms) |-> prod(s, TheOne(s.identity_mul), terms[i])]))

CNF_call_from_zero(s, v) ==
    LET terms == CNF_list(s, v)
    IN  IF s.identity_mul = {} THEN Raise("AttributeError")
        ELSE IF s.identity_add = {} THEN Raise("AttributeError")
        ELSE Elem(prod(s, TheOne(s.identity_add),
                       [i \in 1..Len(terms) |-> sum(s, TheOne(s.identity_add), terms[i])]))

\* CNF.__call__: start=self.struct.identity_mul is read when prod is called,
\* self.struct.identity_add when the first maxterm is folded
CNF_call(s, v) ==
    LET terms == CNF_list(s, v)
    IN  IF s.identity_mul = {} THEN Raise("AttributeError")
        ELSE IF terms # <<>> /\ s.identity_add = {} THEN Raise("AttributeError")
        ELSE Elem(prod(s, TheOne(s.identity_mul),
                       [i \in 1..Len(terms) |-> sum(s, TheOne(s.identity_add), terms[i])]))

\* results that are not Elements
Str(text) == [tag |-> "str", val |-> text, exc |-> ""]
List(q) == [tag |-> "list", val |-> q, exc |-> ""]

Returned(op, r) ==
    /\ ret' = Ret(op, <<>>, r)
    /\ UNCHANGED <<struct, pool, view, trav>>

DNFList == Returned("list(DNF)", List(DNF_list(struct, view)))
CNFList == Returned("list(CNF)", List(CNF_list(struct, view)))
DNFAscii == Returned("DNF.ascii", Str(DNF_ascii(struct, view)))
CNFAscii == Returned("CNF.ascii", Str(CNF_ascii(struct, view)))
DNFCall == Returned("DNF.__call__", DNF_call(struct, view))
CNFCall == Returned("CNF.__call__", CNF_call(struct, view))

NextEval ==
    \/ DNFList
    \/ CNFList
    \/ DNFAscii
    \/ CNFAscii
    \/ DNFCall
    \/ CNFCall

SpecEval == InitCanon /\ [][NextEval]_vars

----------------------------------------------------------------------------
(* Several traversals of the views of one formula, their steps interleaved: *)
(* each iter(form) is a generator of its own, and an exhausted traversal    *)
(* may be started again.                                                    *)

Travs == {"t1", "t2"}
Forms == {"DNF", "CNF"}

\* next(it) of a traversal of DNF(struct, formula) or of CNF(struct, formula)
next_term(s, v, tr) ==
    LET r == IF tr.form = "DNF" THEN DNF_iter(s, v, [pos |-> tr.pos, out |-> tr.out])
             ELSE CNF_iter(s, v, [pos |-> tr.pos, out |-> tr.out])
    IN  [tr EXCEPT !.pos = r.pos, !.out = r.out]

advance_shared(s, v, trs, t) ==
    [u \in DOMAIN trs |->
        IF u = t THEN next_term(s, v, trs[u]) ELSE [trs[u] EXCEPT !.pos = @ + 1]]

\* one traversal advances; its position and output are its own
advance(s, v, trs, t) == [trs EXCEPT ![t] = next_term(s, v, @)]

InitInterleave ==
    /\ InitView(MaxTravRows)
    /\ \E forms \in [Travs -> Forms] :
          trav = [t \in Travs |-> [form |-> forms[t], pos |-> 0, out |-> <<>>, round |-> 1]]

TravStep ==
    \E t \in Travs :
        /\ trav[t].pos < NumRows
        /\ trav' = advance(struct, view, trav, t)
        /\ UNCHANGED <<struct, pool, ret, view>>

\* iter(form) again, after the previous traversal is exhausted
TravAgain ==
    \E t \in Travs :
        /\ trav[t].pos >= NumRows
        /\ trav[t].round < MaxRounds
        /\ trav' = [trav EXCEPT ![t] = [@ EXCEPT !.pos = 0, !.out = <<>>, !.round = @ + 1]]
        /\ UNCHANGED <<struct, pool, ret, view>>

NextInterleave ==
    \/ TravStep
    \/ TravAgain

SpecInterleave == InitInterleave /\ [][NextInterleave]_vars

----------------------------------------------------------------------------
(* Properties of the canonical forms *)

\* the n-tuples over the carrier, and their lexicographic order
Tuples == [1..view.n -> struct.set]
LexLess(a, b) ==
    \E i \in 1..view.n : a[i] < b[i] /\ \A j \in 1..(i - 1) : a[j] = b[j]
LexMin(S) == CHOOSE a \in S : \A b \in S \ {a} : LexLess(a, b)

RECURSIVE SortLex(_)
SortLex(S) == IF S = {} THEN <<>> ELSE <<LexMin(S)>> \o SortLex(S \ {LexMin(S)})

Complement(t) == [i \in 1..Len(t) |-> UnOp(struct.inv, struct.n, t[i])]

DNFDone == trav.DNF.pos = NumRows
CNFDone == trav.CNF.pos = NumRows
IsB == struct.name = "B"

\* C1: a full traversal of DNF(s, f) yields exactly the operand tuples on which
\* f is truthy, each unchanged and once, in lexicographic order of the sorted
\* elements.
C1_DNFMinterms ==
    DNFDone => trav.DNF.out = SortLex({t \in Tuples : view.formula[t]})

\* B, f(x, y, z) = (-x + y + -z) * -z * x: the minterms (1,0,0), (1,1,0)
C1_Witness ==
    /\ IsB /\ view.n = 3 /\ DNFDone
    /\ trav.DNF.out = << <<1, 0, 0>>, <<1, 1, 0>> >>

\* C2: a full traversal of CNF(s, f) yields one maxterm for each operand tuple
\* on which f is falsy and none for the others, in enumeration order, each the
\* component-wise inverse of the falsifying tuple.
C2_CNFMaxterms ==
    CNFDone =>
        LET F == SortLex({t \in Tuples : ~view.formula[t]})
        IN  trav.CNF.out = [i \in 1..Len(F) |-> Complement(F[i])]

\* B, f(x, y, z) = -(x + y + z): seven maxterms, from (1,1,0) to (0,0,0)
C2_Witness ==
    /\ IsB /\ view.n = 3 /\ CNFDone
    /\ trav.CNF.out = << <<1, 1, 0>>, <<1, 0, 1>>, <<1, 0, 0>>, <<0, 1, 1>>,
                         <<0, 1, 0>>, <<0, 0, 1>>, <<0, 0, 0>> >>

\* the literal of a term component c at the operand x: x, or -x if c is falsy
Literal(c, x) == IF truthy(c) THEN x ELSE UnOp(struct.inv, struct.n, x)
Literals(term, t) == [i \in 1..Len(t) |-> Literal(term[i], t[i])]

RECURSIVE SumFrom(_, _)
SumFrom(acc, q) ==
    IF q = <<>> THEN acc ELSE SumFrom(ElementAdd(struct, acc, Head(q)), Tail(q))

RECURSIVE ProdFrom(_, _)
ProdFrom(acc, q) ==
    IF q = <<>> THEN acc ELSE ProdFrom(ElementMul(struct, acc, Head(q)), Tail(q))

Zero == TheOne(struct.identity_add)
One == TheOne(struct.identity_mul)

SumOfProducts(terms, t) ==
    SumFrom(Zero, [k \in 1..Len(terms) |-> ProdFrom(One, Literals(terms[k], t))])
ProductOfSums(terms, t) ==
    ProdFrom(One, [k \in 1..Len(terms) |-> SumFrom(Zero, Literals(terms[k], t))])

\* C3: over B, the sum over the minterms of the products of their literals,
\* and the product over the maxterms of the sums of their literals, are truthy
\* at an operand tuple exactly when the formula is.
C3_RoundTrip ==
    IsB =>
        /\ DNFDone =>
              \A t \in Tuples : truthy(SumOfProducts(trav.DNF.out, t)) <=> view.formula[t]
        /\ CNFDone =>
              \A t \in Tuples : truthy(ProductOfSums(trav.CNF.out, t)) <=> view.formula[t]

\* B, a formula of two parameters with two minterms and two maxterms
C3_Witness ==
    /\ IsB /\ view.n = 2 /\ DNFDone /\ CNFDone
    /\ Len(trav.DNF.out) = 2 /\ Len(trav.CNF.out) = 2
    /\ view.formula[<<0, 1>>] /\ view.formula[<<1, 0>>]

\* C4: over B, the minterms and the maxterms together number 2^n, and every
\* operand tuple is a minterm or, complemented, a maxterm, never both.
C4_Duality ==
    (IsB /\ DNFDone /\ CNFDone) =>
        /\ Len(trav.DNF.out) + Len(trav.CNF.out) = Power(2, view.n)
        /\ \A t \in Tuples :
              (t \in Range(trav.DNF.out)) # (Complement(t) \in Range(trav.CNF.out))

\* B, three parameters, three minterms and five maxterms
C4_Witness ==
    /\ IsB /\ view.n = 3 /\ DNFDone /\ CNFDone
    /\ Len(trav.DNF.out) = 3 /\ Len(trav.CNF.out) = 5

\* f(x, y, z) = -(x + y + z) over B: truthy on (0, 0, 0) alone
IsNOR == IsB /\ view.n = 3 /\ \A t \in Tuples : view.formula[t] <=> t = <<0, 0, 0>>
Minterms == SortLex({t \in Tuples : view.formula[t]})

\* the text of the components j.. of a minterm, and of the minterms i.. of a list
RECURSIVE TermText(_, _)
TermText(t, j) ==
    IF j > Len(t) THEN ""
    ELSE (IF t[j] = 0 THEN "-" ELSE "") \o Names[j]
         \o (IF j < Len(t) THEN "*" ELSE "") \o TermText(t, j + 1)

RECURSIVE SumText(_, _)
SumText(q, i) ==
    IF i > Len(q) THEN ""
    ELSE TermText(q[i], 1) \o (IF i < Len(q) THEN " + " ELSE "") \o SumText(q, i + 1)

\* C16: over B, DNF(B, f).ascii() lists the minterms in enumeration order
\* joined by " + "; in a minterm the parameter names stand in declaration order
\* joined by "*", a name with a leading "-" exactly when the component is falsy.
\* For f(x, y, z) = -(x + y + z) it is "-x*-y*-z", and CNF(B, f) has 7 maxterms.
C16_Ascii ==
    IsB =>
        /\ ret.op = "DNF.ascii" => ret.tag = "str" /\ ret.val = SumText(Minterms, 1)
        /\ (IsNOR /\ ret.op = "DNF.ascii") => ret.val = "-x*-y*-z"
        /\ (IsNOR /\ ret.op = "list(CNF)") => Len(ret.val) = 7
        /\ (IsNOR /\ ret.op = "CNF.ascii") =>
              ret.val = "(x+y+-z) * (x+-y+z) * (x+-y+-z) * (-x+y+z) * (-x+y+-z)"
                        \o " * (-x+-y+z) * (-x+-y+-z)"

\* B, a formula of two parameters truthy on (0, 1) and (1, 1) alone
C16_Witness ==
    /\ IsB /\ view.n = 2 /\ Minterms = << <<0, 1>>, <<1, 1>> >>
    /\ ret.op = "DNF.ascii" /\ ret.val = "-x*y + x*y"

AllTruthy == \A t \in Tuples : view.formula[t]
AllFalsy == \A t \in Tuples : ~view.formula[t]

\* C17: on a Structure with both identities, a formula truthy on every operand
\* tuple has a CNF without maxterms whose value is the multiplicative identity,
\* and a formula falsy on every operand tuple has a DNF without minterms whose
\* value is the additive identity.
C17_EmptyFolds ==
    (struct.identity_add # {} /\ struct.identity_mul # {}) =>
        /\ (AllTruthy /\ ret.op = "list(CNF)") => ret.val = <<>>
        /\ (AllTruthy /\ ret.op = "CNF.__call__") =>
              ret.tag = "elem" /\ {ret.val} = struct.identity_mul
        /\ (AllFalsy /\ ret.op = "list(DNF)") => ret.val = <<>>
        /\ (AllFalsy /\ ret.op = "DNF.__call__") =>
              ret.tag = "elem" /\ {ret.val} = struct.identity_add

\* D(4), a formula of one parameter truthy on 1, 2 and 4: CNF(...)() is 4
C17_Witness ==
    /\ struct.name = "D" /\ struct.n = 4 /\ view.n = 1 /\ AllTruthy
    /\ ret.op = "CNF.__call__" /\ ret.tag = "elem" /\ ret.val = 4

\* C19: over B, DNF(B, f)() and CNF(B, f)() are the same Element for every
\* formula f: B(1) when f is truthy on the operand tuple of ones, B(0) when it
\* is not, whatever f is on the other tuples.
Ones == [i \in 1..view.n |-> 1]

C19_OnesDecide ==
    (IsB /\ ret.op \in {"DNF.__call__", "CNF.__call__"}) =>
        /\ ret.tag = "elem"
        /\ ret.val = IF view.formula[Ones] THEN 1 ELSE 0

\* a formula of three parameters truthy on (1, 1, 1) and falsy on five other
\* tuples at least: CNF(B, f)() is B(1)
C19_Witness ==
    /\ IsB /\ view.n = 3 /\ view.formula[Ones]
    /\ Cardinality({t \in Tuples : ~view.formula[t]}) >= 5
    /\ ret.op = "CNF.__call__" /\ ret.tag = "elem" /\ ret.val = 1

\* the operand tuples in enumeration order, and the terms of the first k of them
Rows == SortLex(Tuples)

RECURSIVE TermsUpTo(_, _)
TermsUpTo(form, k) ==
    IF k = 0 THEN <<>>
    ELSE TermsUpTo(form, k - 1)
         \o (IF form = "DNF"
             THEN (IF view.formula[Rows[k]] THEN <<Rows[k]>> ELSE <<>>)
             ELSE (IF view.formula[Rows[k]] THEN <<>> ELSE <<Complement(Rows[k])>>))

\* C18: under every interleaving of the steps of the traversals of the views
\* of a formula, each traversal has yielded the terms of the operand tuples it
\* has examined, in enumeration order, so a finished traversal has the complete
\* term sequence, the one a traversal run alone gives, on every run; and no
\* step changes the structure.
C18_TraversalState ==
    \A t \in Travs :
        /\ trav[t].pos \in 0..NumRows
        /\ trav[t].out = TermsUpTo(trav[t].form, trav[t].pos)
        /\ trav[t].pos = NumRows =>
              trav[t].out = IF trav[t].form = "DNF" THEN DNF_list(struct, view)
                            ELSE CNF_list(struct, view)

C18_NoInterference ==
    /\ []C18_TraversalState
    /\ [][struct' = struct /\ pool' = pool /\ view' = view]_vars

\* two traversals of the same DNF view over four operand tuples: one finished
\* for the second time, the other half way through its first run
C18_Witness ==
    /\ NumRows = 4 /\ trav["t1"].form = "DNF" /\ trav["t2"].form = "DNF"
    /\ trav["t1"].round = 2 /\ trav["t1"].pos = 4 /\ Len(trav["t1"].out) >= 2
    /\ trav["t2"].round = 1 /\ trav["t2"].pos = 2 /\ Len(trav["t2"].out) = 1

============================================================================
